---- MODULE Spec2Model ----
(***************************************************************************)
(* Model of the per-file self-healing loop of the Refactoring Swarm:       *)
(* RefactoringOrchestrator.run and ._process_file (src/src/orchestrator.py)*)
(* together with the result shapes of the collaborators it calls           *)
(* (FixerAgent.fix_file, TesterAgent.test_file, CodeAnalyzer.analyze_file, *)
(* AuditorAgent.analyze_directory).  The collaborators' environment (LLM,  *)
(* pytest, pylint, file system) is a nondeterministic input to each step.  *)
(* Further components, each with a specification of its own: the tools     *)
(* package and its SecurityManager (SpecTools), the message buses of the   *)
(* agents (SpecBus), the project-level orchestrator of                     *)
(* src/src/utils/orchestrator.py (SpecProject) and the sandboxed file      *)
(* access of file_operations.py and file_ops.py (SpecSandbox).             *)
(***************************************************************************)
EXTENDS Integers, Sequences, FiniteSets, TLC

\* ---------------------------------------------------------------- bounds
MaxFiles == 2
MaxIter == 2
MinIter == 0 - 1
MaxRuns == 2
MaxToolCalls == 3
MaxBusMessages == 5
MaxProjectIter == 2
MaxIssues == 5
MaxPathLen == 3

\* ------------------------------------------------------ program constants
\* ScoreGate threshold of the specification (score >= 8.0 is acceptable)
QualityThreshold == 8
\* _validate_without_tests requires pylint_score > 7.0
StaticPassScore == 7
\* audit_project audits files[:3]
MaxAudited == 3

\* pylint scores the environment can produce (0 is also the timeout score)
Scores == {0, 7, 9}

VARIABLES
    max_iterations,   \* self.max_iterations
    pc,               \* position of the single thread of control
    run_result,       \* what run() returned: "none" while running
    python_files,     \* len(python_files) of run(); paths are 1..python_files
    audit_results,    \* audit_results["files"]: one record per listed file
    idx,              \* position of the for loop over audit_results["files"]
    progress,         \* self.progress
    file_results,     \* file_results of run()
    iteration,        \* locals of _process_file
    previous_errors,
    initial_score,
    final_score,
    file_modified,
    content_changed,  \* ghost: some fix of the current file changed its content
    calls,            \* ghost: collaborator calls made for the current file
    runs              \* ghost: number of calls of run() on this orchestrator

\* the state of RefactoringOrchestrator (src/src/orchestrator.py)
runVars == <<max_iterations, pc, run_result, python_files, audit_results, idx,
             progress, file_results, iteration, previous_errors, initial_score,
             final_score, file_modified, content_changed, calls, runs>>

\* ---------------------------------------------- the tools package (src/tools)
VARIABLES
    tools_imported,            \* the package src.tools has been imported
    security_manager,          \* security.security_manager: 0 is None, else the root
    analysis_security_manager, \* the name security_manager of module analysis
    tool_calls                 \* ghost: the tool operations called and how they ended

toolVars == <<tools_imported, security_manager, analysis_security_manager, tool_calls>>

\* `security_manager = None` at module level; nothing is imported yet
InitTools ==
    /\ tools_imported = FALSE
    /\ security_manager = 0
    /\ analysis_security_manager = 0
    /\ tool_calls = << >>

\* ------------------------------------- the message buses (utils/messaging)
VARIABLES
    bus_messages,       \* MessageBus.messages of each bus instance
    bus_subscribers,    \* the keys of MessageBus.subscribers of each instance
    reports_processed,  \* ghost: number of runs of process_audit_report
    reports_sent        \* ghost: AUDIT_REPORTs sent to "Fixer" after it subscribed

busVars == <<bus_messages, bus_subscribers, reports_processed, reports_sent>>

\* `message_bus = MessageBus()` at the top of agents/auditor.py and of
\* agents/fixer.py: each module owns an instance of its own
Buses == {"auditor.message_bus", "fixer.message_bus"}

\* MessageBus.__init__
InitBus ==
    /\ bus_messages = [b \in Buses |-> << >>]
    /\ bus_subscribers = [b \in Buses |-> {}]
    /\ reports_processed = 0
    /\ reports_sent = 0

\* ------------------- the project-level orchestrator (utils/orchestrator.py)
VARIABLES
    project_pc,             \* position in run() of utils/orchestrator.py
    project_max_iterations, \* self.max_iterations
    current_iteration,      \* self.current_iteration
    project_success,        \* self.success
    improvement_detected,   \* local of _refactoring_loop
    initial_audit,          \* what audit_project returned to _run_initial_audit
    initial_quality,        \* initial_quality of run(), in hundredths
    last_check,             \* ghost: tests and quality verdict of the last iteration
    loop_entered,           \* ghost: _refactoring_loop has been called
    final_report,           \* conclusion printed by _generate_final_report
    project_result          \* what run() returned: "none" while running

projectVars == <<project_pc, project_max_iterations, current_iteration, project_success,
                 improvement_detected, initial_audit, initial_quality, last_check,
                 loop_entered, final_report, project_result>>

NoAudit == [error |-> FALSE, files_audited |-> 0, total_issues |-> 0]
NoCheck == [all_passed |-> FALSE, quality_ok |-> FALSE]

\* RefactoringOrchestrator.__init__ of utils/orchestrator.py
InitProject ==
    /\ project_pc = "new"
    /\ project_max_iterations = 0
    /\ current_iteration = 0
    /\ project_success = FALSE
    /\ improvement_detected = FALSE
    /\ initial_audit = NoAudit
    /\ initial_quality = 0
    /\ last_check = NoCheck
    /\ loop_entered = FALSE
    /\ final_report = "none"
    /\ project_result = "none"

\* ------------------------------ sandboxed file access (file_operations.py,
\* file_ops.py, security.py)
VARIABLES
    last_op,          \* ghost: the last file operation, its target and how it ended
    outside_touched,  \* ghost: some operation read or wrote outside its root
    inside_written    \* ghost: some operation wrote a file inside its root

sandboxVars == <<last_op, outside_touched, inside_written>>

NoOp == [lib |-> "none", op |-> "none", outside |-> FALSE, outcome |-> "none",
         accessed |-> FALSE]

InitSandbox ==
    /\ last_op = NoOp
    /\ outside_touched = FALSE
    /\ inside_written = FALSE

\* the state of the components the per-file orchestrator does not touch
others == <<toolVars, busVars, projectVars, sandboxVars>>

vars == <<runVars, others>>

locals == <<iteration, previous_errors, initial_score, final_score,
            file_modified, content_changed, calls>>

\* ------------------------------------------------------------- utilities
NoDiag == [file |-> 0, it |-> 0]

Last(s) == s[Len(s)]

\* one entry of the ghost call log
Call(op, it, ok, retry, score, prev, timed_out) ==
    [op |-> op, it |-> it, ok |-> ok, retry |-> retry, score |-> score, prev |-> prev,
     timed_out |-> timed_out]

CallsOf(op) == SelectSeq(calls, LAMBDA c : c.op = op)

\* ---------------------------------------------------------- collaborators
\* FixerAgent.fix_file: env.ok is "no exception in the try block",
\* env.changed is "the content written differs from the content read".
FixEnvs == [ok : BOOLEAN, changed : BOOLEAN]

\* Neither return dictionary of fix_file carries a "file_modified" key, so
\* fix_result.get("file_modified", False) reads the default.
FixFile(env) ==
    [success |-> env.ok, error |-> ~env.ok, file_modified |-> FALSE]

\* TestRunner.run_tests: a timeout or a crash of pytest reports no test.
RunEnvs ==
    { r \in [returncode_ok : BOOLEAN, total : {0, 2}, failed : {0, 1}, timed_out : BOOLEAN] :
        /\ r.timed_out => (r.total = 0 /\ r.failed = 0 /\ ~r.returncode_ok)
        /\ r.returncode_ok => r.failed = 0
        /\ r.failed <= r.total }

RunTests(r) ==
    IF r.timed_out
    THEN [success |-> FALSE, total_tests |-> 0, failed |-> 0]
    ELSE [success |-> r.returncode_ok, total_tests |-> r.total, failed |-> r.failed]

\* CodeAnalyzer.analyze_file: raises FileNotFoundError when the file is
\* missing, else returns a score (0.0 on a pylint timeout or crash).
AnalyzerEnvs == [raises : BOOLEAN, score : Scores, has_errors : BOOLEAN]

\* TesterAgent._validate_without_tests
ValidateWithoutTests(a) ==
    [success |-> (~a.has_errors /\ a.score > StaticPassScore), retry_needed |-> TRUE]

\* the except branch of TesterAgent.test_file
TestException == [success |-> FALSE, retry_needed |-> TRUE]

TestEnvs ==
    [has_tests : BOOLEAN, gen_ok : BOOLEAN, raises : BOOLEAN, run : RunEnvs,
     llm_retry : BOOLEAN, pylint : AnalyzerEnvs]

\* TesterAgent.test_file
TestFile(env) ==
    IF env.raises THEN TestException
    ELSE IF ~env.has_tests /\ ~env.gen_ok
    THEN \* _handle_test_generation_failure; its analyze_file may raise
         IF env.pylint.raises THEN TestException
         ELSE [success |-> FALSE, retry_needed |-> TRUE]
    ELSE LET r == RunTests(env.run) IN
         IF r.total_tests = 0
         THEN IF env.pylint.raises THEN TestException
              ELSE ValidateWithoutTests(env.pylint)
         ELSE IF ~r.success /\ r.failed > 0
         THEN \* _analyze_failures: retry_needed comes from the LLM analysis
              [success |-> r.success, retry_needed |-> env.llm_retry]
         ELSE [success |-> r.success, retry_needed |-> FALSE]

\* the distinct results test_file can hand to the orchestrator
TestOutcomes == { TestFile(e) : e \in TestEnvs }

\* test_file reached run_tests and pytest ran into its 60 s timeout
TimedOut(env) ==
    ~env.raises /\ (env.has_tests \/ env.gen_ok) /\ env.run.timed_out

\* what one call of test_file shows: its result, and whether pytest timed out
TestRuns == { [result |-> TestFile(e), timed_out |-> TimedOut(e)] : e \in TestEnvs }

\* ------------------------------------------------------------------ Init
Init ==
    /\ max_iterations \in MinIter..MaxIter
    /\ pc = "start"
    /\ run_result = "none"
    /\ python_files = 0
    /\ audit_results = << >>
    /\ idx = 1
    /\ progress = [total_files |-> 0, processed_files |-> 0, successful_files |-> 0,
                   failed_files |-> 0, total_iterations |-> 0]
    /\ file_results = << >>
    /\ iteration = 0
    /\ previous_errors = NoDiag
    /\ initial_score = 0
    /\ final_score = 0
    /\ file_modified = FALSE
    /\ content_changed = FALSE
    /\ calls = << >>
    /\ runs = 1
    /\ InitTools
    /\ InitBus
    /\ InitProject
    /\ InitSandbox

\* ------------------------------------------------------------------- run
\* the audit stage's view of one file: analyze_file succeeded or not, and
\* the overall_score of the plan it produced
AuditEnvs == [success : BOOLEAN, overall_score : {7}]

RECURSIVE SeqsOf(_, _)
SeqsOf(S, n) ==
    IF n = 0 THEN { << >> }
    ELSE { Append(s, x) : s \in SeqsOf(S, n - 1), x \in S }

\* run(), step 1: copy_to_sandbox and list_python_files
CopyToSandbox ==
    /\ pc = "start"
    /\ \E copy_ok \in BOOLEAN, n \in 0..MaxFiles :
        IF ~copy_ok
        THEN /\ run_result' = "copy_failed"
             /\ pc' = "returned"
             /\ UNCHANGED <<python_files, progress>>
        ELSE /\ python_files' = n
             /\ progress' = [progress EXCEPT !.total_files = n]
             /\ IF n = 0
                THEN run_result' = "no_files" /\ pc' = "returned"
                ELSE run_result' = run_result /\ pc' = "audit"
    /\ UNCHANGED <<others, max_iterations, runs, audit_results, idx, file_results, locals>>

\* run(), step 2: AuditorAgent.analyze_directory audits every listed file
AuditDirectory ==
    /\ pc = "audit"
    /\ \E res \in SeqsOf(AuditEnvs, python_files) :
        IF python_files = 0
        THEN /\ run_result' = "audit_failed"
             /\ pc' = "returned"
             /\ UNCHANGED <<audit_results, idx>>
        ELSE /\ audit_results' = res
             /\ idx' = 1
             /\ pc' = "files"
             /\ UNCHANGED run_result
    /\ UNCHANGED <<others, max_iterations, runs, python_files, progress, file_results, locals>>

\* run(), step 3: the for loop skips a file whose audit failed
SkipFile ==
    /\ pc = "files"
    /\ idx <= Len(audit_results)
    /\ ~audit_results[idx].success
    /\ idx' = idx + 1
    /\ UNCHANGED <<others, max_iterations, runs, pc, run_result, python_files, audit_results,
                   progress, file_results, locals>>

\* variant: the processed counter is not advanced
CountProcessed_Forgotten(p) == p

\* self.progress["processed_files"] += 1
CountProcessed(p) == [p EXCEPT !.processed_files = @ + 1]

\* run(), step 3: count the file as processed and enter _process_file
BeginFile ==
    /\ pc = "files"
    /\ idx <= Len(audit_results)
    /\ audit_results[idx].success
    /\ progress' = CountProcessed(progress)
    /\ iteration' = 0
    /\ previous_errors' = NoDiag
    /\ initial_score' = audit_results[idx].overall_score
    /\ final_score' = 0
    /\ file_modified' = FALSE
    /\ content_changed' = FALSE
    /\ calls' = << >>
    /\ pc' = "while"
    /\ UNCHANGED <<others, max_iterations, runs, run_result, python_files, audit_results, idx,
                   file_results>>

\* _process_file returns r: run() appends it and moves to the next file
Return(r) ==
    /\ file_results' = Append(file_results, r)
    /\ idx' = idx + 1
    /\ pc' = "files"

\* ---------------------------------------------------------- _process_file
\* while iteration < self.max_iterations
LoopCondition(it) == it < max_iterations

\* variant: a failed fix is tested like a successful one
AfterFix_IgnoresFailure(fix_result) == "test"

\* if not fix_result.get("success"): return the failure, else go on to test
AfterFix(fix_result) ==
    IF ~fix_result.success THEN "return" ELSE "test"

\* variant: passing tests leave the loop like a break instead of returning
AfterTest_PassFallsThrough(test_result) ==
    IF test_result.success THEN "after_loop"
    ELSE IF ~test_result.retry_needed THEN "after_loop"
    ELSE "while"

\* if test_result.get("success"): score and return; elif not retry_needed:
\* break; else prepare the retry
AfterTest(test_result) ==
    IF test_result.success THEN "score"
    ELSE IF ~test_result.retry_needed THEN "after_loop"
    ELSE "while"

\* variant: the result of a failed fix is marked successful
FixFailedResult_ReportsSuccess(it, fix_result) ==
    [filepath |-> idx, success |-> TRUE, iterations |-> it, error |-> fix_result.error,
     initial_score |-> initial_score, final_score |-> initial_score,
     file_modified |-> file_modified, error_type |-> "fix_failed",
     tests_passed |-> FALSE, max_iterations_reached |-> FALSE,
     retry_aborted |-> FALSE]

\* the dictionary returned when the fixer failed
FixFailedResult(it, fix_result) ==
    [filepath |-> idx, success |-> FALSE, iterations |-> it, error |-> fix_result.error,
     initial_score |-> initial_score, final_score |-> initial_score,
     file_modified |-> file_modified, error_type |-> "fix_failed",
     tests_passed |-> FALSE, max_iterations_reached |-> FALSE,
     retry_aborted |-> FALSE]

\* variant: the success result reports the retries, not the iterations
SuccessResult_CountsRetries(it, score) ==
    [filepath |-> idx, success |-> TRUE, iterations |-> it - 1, error |-> FALSE,
     initial_score |-> initial_score, final_score |-> score,
     file_modified |-> file_modified, error_type |-> "none",
     tests_passed |-> TRUE, max_iterations_reached |-> FALSE,
     retry_aborted |-> FALSE]

\* the dictionary returned when the tests passed inside the loop
SuccessResult(it, score) ==
    [filepath |-> idx, success |-> TRUE, iterations |-> it, error |-> FALSE,
     initial_score |-> initial_score, final_score |-> score,
     file_modified |-> file_modified, error_type |-> "none",
     tests_passed |-> TRUE, max_iterations_reached |-> FALSE,
     retry_aborted |-> FALSE]

\* variant: the result after the loop reports the cap as the iterations used
FinalResult_ReportsCap(it, final_tests_passed) ==
    [filepath |-> idx, success |-> final_tests_passed, iterations |-> max_iterations,
     error |-> FALSE, initial_score |-> initial_score, final_score |-> final_score,
     file_modified |-> file_modified,
     error_type |-> IF it >= max_iterations THEN "max_iterations" ELSE "retry_not_needed",
     tests_passed |-> final_tests_passed,
     max_iterations_reached |-> (it >= max_iterations),
     retry_aborted |-> (it < max_iterations /\ ~final_tests_passed)]

\* the dictionary returned after the loop
FinalResult(it, final_tests_passed) ==
    [filepath |-> idx, success |-> final_tests_passed, iterations |-> it,
     error |-> FALSE, initial_score |-> initial_score, final_score |-> final_score,
     file_modified |-> file_modified,
     error_type |-> IF it >= max_iterations THEN "max_iterations" ELSE "retry_not_needed",
     tests_passed |-> final_tests_passed,
     max_iterations_reached |-> (it >= max_iterations),
     retry_aborted |-> (it < max_iterations /\ ~final_tests_passed)]

\* variant: the final test counts a failure first and then also the success
CountFinal_CountsTwice(p, final_tests_passed) ==
    IF final_tests_passed
    THEN [p EXCEPT !.successful_files = @ + 1, !.failed_files = @ + 1]
    ELSE [p EXCEPT !.failed_files = @ + 1]

\* if final_tests_passed: successful_files += 1 else: failed_files += 1
CountFinal(p, final_tests_passed) ==
    IF final_tests_passed
    THEN [p EXCEPT !.successful_files = @ + 1]
    ELSE [p EXCEPT !.failed_files = @ + 1]

\* variant: a loop pass advances the counter by two
NextIteration_SkipsOne(it) == it + 2

\* iteration += 1 at the top of each loop pass
NextIteration(it) == it + 1

\* one pass of the while loop up to the fixer's answer
FixStep ==
    /\ pc = "while"
    /\ LoopCondition(iteration)
    /\ iteration' = NextIteration(iteration)
    /\ \E env \in FixEnvs :
        LET fix_result == FixFile(env) IN
        /\ calls' = Append(calls, Call("fix", NextIteration(iteration), fix_result.success, FALSE, 0,
                                       previous_errors, FALSE))
        /\ content_changed' = (content_changed \/ env.changed)
        /\ IF AfterFix(fix_result) = "return"
           THEN /\ progress' = [progress EXCEPT !.total_iterations = @ + 1,
                                                !.failed_files = @ + 1]
                /\ Return(FixFailedResult(NextIteration(iteration), fix_result))
                /\ UNCHANGED file_modified
           ELSE /\ progress' = [progress EXCEPT !.total_iterations = @ + 1]
                /\ file_modified' = (file_modified \/ fix_result.file_modified)
                /\ pc' = "test"
                /\ UNCHANGED <<file_results, idx>>
    /\ UNCHANGED <<others, max_iterations, runs, run_result, python_files, audit_results,
                   previous_errors, initial_score, final_score>>

\* variant: the retry keeps the diagnostics it already had
RetryErrors_Stale(test_result) == previous_errors

\* previous_errors = self._format_errors(test_result) when a retry is
\* prepared: the diagnostics of this file's validation of this iteration
RetryErrors(test_result) ==
    IF AfterTest(test_result) = "while"
    THEN [file |-> idx, it |-> iteration]
    ELSE previous_errors

\* the tester's answer inside the loop
TestStep ==
    /\ pc = "test"
    /\ \E run \in TestRuns :
        LET test_result == run.result IN
        /\ calls' = Append(calls, Call("test", iteration, test_result.success,
                                       test_result.retry_needed, 0, NoDiag,
                                       run.timed_out))
        /\ pc' = AfterTest(test_result)
        /\ previous_errors' = RetryErrors(test_result)
    /\ UNCHANGED <<others, max_iterations, runs, run_result, python_files, audit_results, idx,
                   progress, file_results, iteration, initial_score, final_score,
                   file_modified, content_changed>>

\* tests passed: score the file and return success
ScoreStep ==
    /\ pc = "score"
    /\ \E a \in AnalyzerEnvs :
        /\ calls' = Append(calls, Call("analyze", iteration, ~a.raises, FALSE, a.score, NoDiag,
                                       FALSE))
        /\ IF a.raises
           THEN /\ pc' = "raised"
                /\ UNCHANGED <<progress, file_results, idx, final_score>>
           ELSE /\ final_score' = a.score
                /\ progress' = [progress EXCEPT !.successful_files = @ + 1]
                /\ Return(SuccessResult(iteration, a.score))
    /\ UNCHANGED <<others, max_iterations, runs, run_result, python_files, audit_results, iteration,
                   previous_errors, initial_score, file_modified, content_changed>>

\* after the loop (cap reached, or break): score the file
FinalAnalysis ==
    /\ \/ pc = "after_loop"
       \/ pc = "while" /\ ~LoopCondition(iteration)
    /\ \E a \in AnalyzerEnvs :
        /\ calls' = Append(calls, Call("analyze", iteration, ~a.raises, FALSE, a.score, NoDiag,
                                       FALSE))
        /\ IF a.raises
           THEN pc' = "raised" /\ UNCHANGED final_score
           ELSE pc' = "final_test" /\ final_score' = a.score
    /\ UNCHANGED <<others, max_iterations, runs, run_result, python_files, audit_results, idx,
                   progress, file_results, iteration, previous_errors, initial_score,
                   file_modified, content_changed>>

\* after the loop: one final test decides the disposition
FinalTest ==
    /\ pc = "final_test"
    /\ \E run \in TestRuns :
        LET final_test == run.result
            final_tests_passed == final_test.success IN
        /\ calls' = Append(calls, Call("final_test", iteration, final_test.success,
                                       final_test.retry_needed, 0, NoDiag,
                                       run.timed_out))
        /\ progress' = CountFinal(progress, final_tests_passed)
        /\ Return(FinalResult(iteration, final_tests_passed))
    /\ UNCHANGED <<others, max_iterations, runs, run_result, python_files, audit_results, iteration,
                   previous_errors, initial_score, final_score, file_modified,
                   content_changed>>

\* run(), step 4 and the return of the report
FinalValidation ==
    /\ pc = "files"
    /\ idx > Len(audit_results)
    /\ run_result' = "ok"
    /\ pc' = "returned"
    /\ UNCHANGED <<others, max_iterations, runs, python_files, audit_results, idx, progress,
                   file_results, locals>>

Next ==
    \/ CopyToSandbox
    \/ AuditDirectory
    \/ SkipFile
    \/ BeginFile
    \/ FixStep
    \/ TestStep
    \/ ScoreStep
    \/ FinalAnalysis
    \/ FinalTest
    \/ FinalValidation

Spec == Init /\ [][Next]_vars

\* ------------------------------------------------- observations of a file
\* _process_file has returned for the file whose calls are in `calls`,
\* and its result is the last entry of file_results
FileDone == pc \in {"files", "returned"} /\ Len(file_results) > 0

\* run() has returned to its caller
Returned == pc = "returned"

AcceptableScores == { sc \in Scores : sc >= QualityThreshold }
LowScores == Scores \ AcceptableScores

\* the validation of iteration k passed and the score then read is in S
PassedWithScore(k, S) ==
    \E i \in 1..(Len(calls) - 1) :
        /\ calls[i].op = "test" /\ calls[i].it = k /\ calls[i].ok
        /\ calls[i + 1].op = "analyze" /\ calls[i + 1].ok /\ calls[i + 1].score \in S

\* the validation of iteration k failed with retry_needed = retry
FailedAt(k, retry) ==
    \E i \in 1..Len(calls) :
        calls[i].op = "test" /\ calls[i].it = k /\ ~calls[i].ok /\ calls[i].retry = retry

FixCalledAt(k) == \E i \in 1..Len(calls) : calls[i].op = "fix" /\ calls[i].it = k

FailedResults == { i \in 1..Len(file_results) : ~file_results[i].success }

\* ---------------------------------------------------------------- claims
\* C1: after run returns, successful_files + failed_files equals total_files,
\* whatever the audit, fix and validation outcomes of the files.
C1_SucceededPlusFailedIsTotal ==
    Returned =>
        progress.successful_files + progress.failed_files = progress.total_files

\* C2: whenever a file's loop has just ended (between two files and at the end
\* of the batch) processed_files = successful_files + failed_files, and
\* processed_files never exceeds total_files.
C2_ProcessedIsSucceededPlusFailed ==
    /\ pc \in {"files", "returned"} =>
          progress.processed_files = progress.successful_files + progress.failed_files
    /\ progress.processed_files <= progress.total_files

C2_Witness ==
    /\ pc = "files" /\ python_files = 2 /\ idx = 2
    /\ progress.processed_files = 1 /\ progress.failed_files = 1

\* C3: with max_iterations <= 0 the file ends failed with 0 iterations and no
\* call at all is made to the fixer, the tester or the analyzer.
C3_NoBudgetNoCalls ==
    max_iterations <= 0 =>
        /\ calls = << >>
        /\ pc # "raised"
        /\ FileDone => (~Last(file_results).success /\ Last(file_results).iterations = 0)

\* C4: passing tests with a score below the threshold at an iteration below
\* the cap lead to another fix iteration and not to success at that
\* iteration.
C4_LowScoreRetries ==
    \A k \in 1..MaxIter :
        (FileDone /\ k < max_iterations /\ PassedWithScore(k, LowScores)) =>
            /\ FixCalledAt(k + 1)
            /\ ~(Last(file_results).success /\ Last(file_results).iterations = k)

\* C5: passing tests with a score below the threshold at the last allowed
\* iteration end the file failed, counted in failed_files only.
C5_LowScoreAtCapFails ==
    (FileDone /\ max_iterations >= 1 /\ PassedWithScore(max_iterations, LowScores)) =>
        /\ ~Last(file_results).success
        /\ Len(file_results) = 1 =>
              (progress.failed_files = 1 /\ progress.successful_files = 0)

\* C6: when the first validation passes with a score at or above the
\* threshold, the loop ends after exactly one iteration with success.
C6_FirstPassSucceedsAtOnce ==
    PassedWithScore(1, AcceptableScores) =>
        /\ FileDone
        /\ Len(calls) = 3
        /\ Last(file_results).success
        /\ Last(file_results).iterations = 1
        /\ iteration = 1

C6_Witness ==
    /\ FileDone /\ max_iterations = 2
    /\ PassedWithScore(1, AcceptableScores)
    /\ Last(file_results).success

\* C7: when every validation of the iterations fails with retry_needed, the
\* file ends failed by budget exhaustion with iterations = max_iterations.
C7_AllRetriesExhaustBudget ==
    (FileDone /\ max_iterations >= 1
       /\ \A k \in 1..max_iterations : FailedAt(k, TRUE)) =>
        /\ ~Last(file_results).success
        /\ Last(file_results).iterations = max_iterations
        /\ Last(file_results).error_type = "max_iterations"

\* C8: a validation that fails at iteration k without retry_needed ends the
\* file failed with iterations = k and the stage-failure reason; no further
\* fix is run.
C8_NoRetryStopsFailed ==
    \A k \in 1..MaxIter :
        (FileDone /\ FailedAt(k, FALSE)) =>
            /\ ~Last(file_results).success
            /\ Last(file_results).iterations = k
            /\ Last(file_results).error_type = "retry_not_needed"
            /\ ~FixCalledAt(k + 1)

\* C9: a fixer failure at iteration k ends the file at once: failed result
\* with iterations = k and the error recorded, no validation or analysis in
\* that iteration, no iteration k + 1, failed_files counted once.
C9_FixFailureStops ==
    \A i \in 1..Len(calls) :
        (calls[i].op = "fix" /\ ~calls[i].ok) =>
            /\ i = Len(calls)
            /\ FileDone
            /\ ~Last(file_results).success
            /\ Last(file_results).iterations = calls[i].it
            /\ Last(file_results).error
            /\ Last(file_results).error_type = "fix_failed"
            /\ progress.failed_files = Cardinality(FailedResults)
            /\ progress.successful_files + progress.failed_files = Len(file_results)

C9_Witness ==
    /\ FileDone /\ Len(calls) = 3
    /\ calls[3].op = "fix" /\ ~calls[3].ok /\ calls[3].it = 2
    /\ Last(file_results).iterations = 2

\* C10: validations failing with retry_needed at iterations 1..k-1 and
\* passing with an acceptable score at iteration k <= max_iterations end the
\* file succeeded with iterations = k.
C10_PassAfterRetriesSucceeds ==
    \A k \in 1..MaxIter :
        (/\ k <= max_iterations
         /\ \A j \in 1..(k - 1) : FailedAt(j, TRUE)
         /\ PassedWithScore(k, AcceptableScores)) =>
            /\ FileDone
            /\ Last(file_results).success
            /\ Last(file_results).iterations = k

C10_Witness ==
    /\ FileDone /\ max_iterations = 2
    /\ FailedAt(1, TRUE) /\ PassedWithScore(2, AcceptableScores)
    /\ Last(file_results).success /\ Last(file_results).iterations = 2

\* file j has an entry in file_results
HasResult(j) == \E r \in 1..Len(file_results) : file_results[r].filepath = j

\* file i failed at some stage: its audit, its loop, or an error raised
\* while it was being processed
FailedFile(i) ==
    \/ ~audit_results[i].success
    \/ \E r \in 1..Len(file_results) :
          file_results[r].filepath = i /\ ~file_results[r].success
    \/ pc = "raised" /\ idx = i

\* C11: no failure of a collaborator escapes _process_file as an exception;
\* every call of _process_file returns a result.
C11_NoErrorEscapes == pc # "raised"

\* C12: when run has ended, every audited file that comes after a failed
\* file has been processed and has its own result.
C12_FailureDoesNotStopBatch ==
    (pc = "raised" \/ (Returned /\ run_result = "ok")) =>
        \A i \in 1..Len(audit_results) : \A j \in 1..Len(audit_results) :
            (i < j /\ FailedFile(i) /\ audit_results[j].success) => HasResult(j)

\* C13: the report returned by run holds exactly one result for every file
\* listed at the start, also for the files whose audit failed.
C13_ReportListsEveryFile ==
    (Returned /\ run_result = "ok") =>
        \A i \in 1..python_files :
            Cardinality({ r \in 1..Len(file_results) : file_results[r].filepath = i }) = 1

\* C14: the success/failure counters move only in the step that returns a
\* file's result, and then exactly one of them moves, by one: each file is
\* counted once over its whole loop, whatever the number of retries.
C14_CountedOncePerFile ==
    [][ /\ progress'.successful_files >= progress.successful_files
        /\ progress'.failed_files >= progress.failed_files
        /\ (progress'.successful_files + progress'.failed_files)
             - (progress.successful_files + progress.failed_files)
           = Len(file_results') - Len(file_results)
        /\ Len(file_results') - Len(file_results) \in {0, 1}
        /\ Len(file_results') > Len(file_results) =>
              (Last(file_results').success
                 <=> progress'.successful_files = progress.successful_files + 1)
      ]_vars

C14_Witness ==
    /\ FileDone /\ Len(file_results) = 1
    /\ FailedAt(1, TRUE) /\ FailedAt(2, TRUE)
    /\ Last(file_results).error_type = "max_iterations"
    /\ Last(file_results).iterations = 2
    /\ progress.failed_files = 1 /\ progress.successful_files = 0

\* the validation of iteration k ran into the pytest timeout
TimedOutAt(k) ==
    \E i \in 1..Len(calls) :
        calls[i].op = "test" /\ calls[i].it = k /\ calls[i].timed_out

\* C15: a validation that times out counts as failed and not retry-eligible:
\* it is never reported as passed, asks for no retry, and the file's loop
\* stops at that iteration with a failure.
C15_TimeoutStopsWithFailure ==
    /\ \A i \in 1..Len(calls) :
          (calls[i].op = "test" /\ calls[i].timed_out) => (~calls[i].ok /\ ~calls[i].retry)
    /\ \A k \in 1..MaxIter :
          (FileDone /\ TimedOutAt(k)) =>
              /\ ~FixCalledAt(k + 1)
              /\ ~Last(file_results).success
              /\ Last(file_results).iterations = k

\* the file whose collaborator calls are in `calls`
LogFile == IF FileDone THEN Last(file_results).filepath ELSE idx

\* C16: within a file the fix of iteration 1 receives no diagnostics, and the
\* fix of iteration N > 1 receives the diagnostics of the validation of
\* iteration N - 1 of the same file.
C16_FixGetsPreviousDiagnostics ==
    \A i \in 1..Len(calls) :
        calls[i].op = "fix" =>
            IF calls[i].it = 1
            THEN calls[i].prev = NoDiag
            ELSE /\ calls[i].prev = [file |-> LogFile, it |-> calls[i].it - 1]
                 /\ FailedAt(calls[i].it - 1, TRUE)

C16_Witness ==
    /\ LogFile = 2 /\ Len(file_results) >= 1
    /\ \E i \in 1..Len(calls) :
          calls[i].op = "fix" /\ calls[i].it = 2 /\ calls[i].prev = [file |-> 2, it |-> 1]

\* C17: a result carries the budget-exhaustion reason only when the loop
\* ended at the cap after a retry-eligible failure; a file stopped by a
\* failure without retry_needed, also at iteration = max_iterations, carries
\* the stage-failure reason.
C17_BudgetReasonOnlyAtCap ==
    (FileDone /\ max_iterations >= 1) =>
        /\ Last(file_results).error_type = "max_iterations" =>
              FailedAt(max_iterations, TRUE)
        /\ \A k \in 1..MaxIter :
              FailedAt(k, FALSE) => Last(file_results).error_type = "retry_not_needed"

\* ---------------------------------------------------------- cancellation
\* A user interrupt (KeyboardInterrupt) arrives while run() is executing.
\* Neither run() nor _process_file checks for cancellation, and the
\* `except Exception` handlers of the collaborators do not catch it: it
\* unwinds run() without a return value.
Interrupt ==
    /\ pc \notin {"returned", "raised", "interrupted"}
    /\ pc' = "interrupted"
    /\ UNCHANGED <<others, max_iterations, runs, run_result, python_files, audit_results, idx,
                   progress, file_results, locals>>

NextInterrupt == Next \/ Interrupt

SpecInterrupt == Init /\ [][NextInterrupt]_vars

\* C18: after a user interrupt the coordinator has returned a report marked
\* incomplete, holding the results of the files finished so far.
C18_InterruptReturnsIncompleteReport ==
    pc = "interrupted" => run_result = "incomplete"

\* ------------------------------------------------------------ second run
\* The caller invokes run() again on the same orchestrator.  run() starts
\* with fresh locals; self.progress is only initialised in __init__, and
\* run() itself assigns nothing but total_files.
Rerun ==
    /\ pc = "returned"
    /\ runs < MaxRuns
    /\ runs' = runs + 1
    /\ pc' = "start"
    /\ run_result' = "none"
    /\ python_files' = 0
    /\ audit_results' = << >>
    /\ idx' = 1
    /\ file_results' = << >>
    /\ iteration' = 0
    /\ previous_errors' = NoDiag
    /\ initial_score' = 0
    /\ final_score' = 0
    /\ file_modified' = FALSE
    /\ content_changed' = FALSE
    /\ calls' = << >>
    /\ UNCHANGED <<others, max_iterations, progress>>

NextRerun == Next \/ Rerun

SpecRerun == Init /\ [][NextRerun]_vars

RECURSIVE SumIterations(_)
SumIterations(rs) ==
    IF rs = << >> THEN 0
    ELSE rs[1].iterations + SumIterations(Tail(rs))

\* C19: the counters reported by a second run of the same orchestrator count
\* only the files and iterations of that run.
C19_SecondRunCountsItsOwnFiles ==
    (runs = 2 /\ Returned /\ run_result = "ok") =>
        /\ progress.total_files = python_files
        /\ progress.processed_files = Len(file_results)
        /\ progress.successful_files + progress.failed_files = Len(file_results)
        /\ progress.total_iterations = SumIterations(file_results)

\* C20: between two files and at the end of the batch, total_iterations is
\* the sum of the iterations of the file results produced so far.
C20_TotalIterationsIsSum ==
    pc \in {"files", "returned"} =>
        progress.total_iterations = SumIterations(file_results)

C20_Witness ==
    /\ pc = "files" /\ Len(file_results) = 2
    /\ file_results[1].iterations = 2 /\ file_results[2].iterations = 1
    /\ progress.total_iterations = 3

\* C21: within a file's loop the iteration counter starts at 0, moves only by
\* exactly +1 on a loop pass (or back to 0 when the next file starts), and
\* with max_iterations >= 0 stays in 0..max_iterations, as does the
\* iterations field of every result.
C21_IterationCountsLoopPasses ==
    [][ /\ iteration' # iteration =>
              \/ iteration' = iteration + 1 /\ pc = "while" /\ Len(calls') = Len(calls) + 1
              \/ iteration' = 0 /\ pc = "files" /\ pc' = "while"
        /\ pc = "files" /\ pc' = "while" => iteration' = 0
        /\ max_iterations >= 0 =>
              /\ iteration \in 0..max_iterations
              /\ iteration' \in 0..max_iterations
              /\ \A j \in 1..Len(file_results') :
                    file_results'[j].iterations \in 0..max_iterations
      ]_vars

C21_Witness ==
    /\ FileDone /\ max_iterations = 2 /\ iteration = 2
    /\ Last(file_results).iterations = 2
    /\ FailedAt(1, TRUE)

\* C22: when some fix iteration of a file changed the file's content, the
\* result of that file reports file_modified = TRUE (stated for the files
\* whose fixes all returned success, where the fixer had a result to report
\* the change in).
C22_ChangedFileReportsModified ==
    (/\ FileDone /\ content_changed
     /\ \A i \in 1..Len(calls) : calls[i].op = "fix" => calls[i].ok) =>
        Last(file_results).file_modified

\* ------------------------------------------------------- the tools package
\* Components other than the tools package and the orchestrator's own
\* state are left alone by the tool operations.
exceptTools == <<runVars, busVars, projectVars, sandboxVars>>

\* importing src.tools (or any of its submodules) runs src/tools/__init__.py:
\* security, file_ops and analysis are loaded, and analysis executes
\* `from .security import security_manager`, which binds its own name to the
\* value security.security_manager has at that moment.
ImportTools ==
    /\ ~tools_imported
    /\ tools_imported' = TRUE
    /\ analysis_security_manager' = security_manager
    /\ UNCHANGED <<security_manager, tool_calls, exceptTools>>

ToolRoots == {1, 2}

\* init_security(workspace_root) rebinds the global of module security
InitSecurity ==
    /\ tools_imported
    /\ \E root \in ToolRoots : security_manager' = root
    /\ UNCHANGED <<tools_imported, analysis_security_manager, tool_calls, exceptTools>>

\* one entry of the log: the operation, whether init_security had been
\* called, whether "SecurityManager non initialisé." was raised to the
\* caller, and whether it was recorded as the error of an analysed file
ToolCall(op, raised, file_error) ==
    [op |-> op, inited |-> security_manager # 0, raised |-> raised,
     file_error |-> file_error]

\* file_ops._get_security_manager imports the name at call time: TRUE when
\* it raises RuntimeError
GetSecurityManagerRaises == security_manager = 0

\* read_file, write_file and list_files of file_ops
FileOps == {"read_file", "write_file", "list_files"}

FileOp(op) == ToolCall(op, GetSecurityManagerRaises, FALSE)

\* run_static_analysis tests the name bound in module analysis
RunStaticAnalysisRaises == analysis_security_manager = 0

RunStaticAnalysis == ToolCall("run_static_analysis", RunStaticAnalysisRaises, FALSE)

\* analyze_project: list_files, then run_static_analysis on each file; an
\* exception of a file is caught and stored as that file's "error"
AnalyzeProject(has_files) ==
    IF GetSecurityManagerRaises
    THEN ToolCall("analyze_project", TRUE, FALSE)
    ELSE ToolCall("analyze_project", FALSE, has_files /\ RunStaticAnalysisRaises)

\* a caller uses one tool operation
UseTool ==
    /\ tools_imported
    /\ Len(tool_calls) < MaxToolCalls
    /\ \E c \in { FileOp(op) : op \in FileOps } \cup { RunStaticAnalysis }
                \cup { AnalyzeProject(h) : h \in BOOLEAN } :
          tool_calls' = Append(tool_calls, c)
    /\ UNCHANGED <<tools_imported, security_manager, analysis_security_manager,
                   exceptTools>>

NextTools == ImportTools \/ InitSecurity \/ UseTool

\* the initial state of the specifications in which the per-file
\* orchestrator is constructed (with the largest budget) and never run
InitIdle == Init /\ max_iterations = MaxIter

SpecTools == InitIdle /\ [][NextTools]_vars

\* C24: once init_security has been called, no tool operation fails with
\* "SecurityManager non initialisé", neither towards its caller nor as the
\* recorded error of a file of analyze_project.
C24_ToolsSeeInitialisedSecurity ==
    \A i \in 1..Len(tool_calls) :
        tool_calls[i].inited => (~tool_calls[i].raised /\ ~tool_calls[i].file_error)

\* ------------------------------------------------------- the message buses
exceptBus == <<runVars, toolVars, projectVars, sandboxVars>>

Message(sender, receiver, msg_type) ==
    [sender |-> sender, receiver |-> receiver, msg_type |-> msg_type]

\* MessageBus.send notifies the receiver when it is a key of the
\* subscribers of the instance send is called on
Notified(bus, message) == message.receiver \in bus_subscribers[bus]

\* the callback of subscribe_to_messages runs process_audit_report for an
\* AUDIT_REPORT; process_audit_report ends by sending a FIX_REQUEST to
\* "Judge" on the fixer's bus
FixerCallbackRuns(bus, message) ==
    Notified(bus, message) /\ message.receiver = "Fixer"
        /\ message.msg_type = "audit_report"

\* MessageBus.send called by module auditor on its message_bus
AuditorSends(message) ==
    /\ Len(bus_messages["auditor.message_bus"]) < MaxBusMessages
    /\ bus_messages' =
          [b \in Buses |->
              IF b = "auditor.message_bus" THEN Append(bus_messages[b], message)
              ELSE IF FixerCallbackRuns("auditor.message_bus", message)
              THEN Append(bus_messages[b], Message("Fixer", "Judge", "fix_request"))
              ELSE bus_messages[b]]
    /\ reports_processed' =
          IF FixerCallbackRuns("auditor.message_bus", message)
          THEN reports_processed + 1 ELSE reports_processed

\* fixer.subscribe_to_messages: message_bus.subscribe("Fixer", callback) on
\* the bus of module fixer
SubscribeToMessages ==
    /\ bus_subscribers' =
          [bus_subscribers EXCEPT !["fixer.message_bus"] = @ \cup {"Fixer"}]
    /\ UNCHANGED <<bus_messages, reports_processed, reports_sent, exceptBus>>

FixerSubscribed == \E b \in Buses : "Fixer" \in bus_subscribers[b]

\* auditor.audit_project: the summary is sent to "Fixer" as AUDIT_REPORT
AuditProjectReports ==
    /\ AuditorSends(Message("Auditor", "Fixer", "audit_report"))
    /\ reports_sent' = IF FixerSubscribed THEN reports_sent + 1 ELSE reports_sent
    /\ UNCHANGED <<bus_subscribers, exceptBus>>

\* auditor.audit_project, except branch: an ERROR_REPORT to "Orchestrator"
AuditProjectFails ==
    /\ AuditorSends(Message("Auditor", "Orchestrator", "error_report"))
    /\ UNCHANGED <<bus_subscribers, reports_sent, exceptBus>>

NextBus == SubscribeToMessages \/ AuditProjectReports \/ AuditProjectFails

SpecBus == InitIdle /\ [][NextBus]_vars

\* C25: every AUDIT_REPORT that audit_project sends to "Fixer" after the
\* Fixer subscribed has run process_audit_report exactly once.
C25_SubscribedFixerGetsEveryReport ==
    reports_processed = reports_sent

\* ------------------------------------------ the project-level orchestrator
exceptProject == <<runVars, toolVars, busVars, sandboxVars>>

\* RefactoringOrchestrator(target_dir, max_iterations) of utils/orchestrator
Construct ==
    /\ project_pc = "new"
    /\ project_max_iterations' \in 0..MaxProjectIter
    /\ project_pc' = "start"
    /\ UNCHANGED <<current_iteration, project_success, improvement_detected,
                   initial_audit, initial_quality, last_check, loop_entered,
                   final_report, project_result, exceptProject>>

\* what audit_project can return: an "error" dictionary, or a summary of up
\* to three audited files
AuditOutcomes ==
    { a \in [error : BOOLEAN, files_audited : 0..MaxAudited, total_issues : 0..MaxIssues] :
        /\ a.error => (a.files_audited = 0 /\ a.total_issues = 0)
        /\ a.files_audited = 0 => a.total_issues = 0 }

\* quality_score = max(0, 10 - (issues_per_file * 2)), in hundredths
QualityScore(total_issues, total_files) ==
    LET q == (1000 * total_files - 200 * total_issues) \div total_files IN
    IF q < 0 THEN 0 ELSE q

\* _run_initial_audit: 0 on an audit error and on any exception, among them
\* the ZeroDivisionError of total_issues / total_files with no audited file
RunInitialAudit(a) ==
    IF a.error \/ a.files_audited = 0 THEN 0
    ELSE QualityScore(a.total_issues, a.files_audited)

\* run(), step 1: `if initial_quality == 0: return True`
InitialAudit ==
    /\ project_pc = "start"
    /\ \E a \in AuditOutcomes :
        /\ initial_audit' = a
        /\ initial_quality' = RunInitialAudit(a)
        /\ project_success' =
              (project_success \/ (~a.error /\ a.files_audited > 0 /\ a.total_issues = 0))
        /\ IF RunInitialAudit(a) = 0
           THEN /\ project_result' = "true"
                /\ project_pc' = "returned"
                /\ UNCHANGED loop_entered
           ELSE /\ loop_entered' = TRUE
                /\ project_pc' = "loop"
                /\ UNCHANGED project_result
    /\ UNCHANGED <<project_max_iterations, current_iteration, improvement_detected,
                   last_check, final_report, exceptProject>>

\* _check_code_quality: the pylint score, when one can be read, against 8.0
CheckCodeQuality(score_read, score) == score_read /\ score >= QualityThreshold

\* _refactoring_loop, first half of an iteration: test_project and, when all
\* tests pass, _check_code_quality; `return True` when both are fine
CheckIteration ==
    /\ project_pc = "loop"
    /\ current_iteration < project_max_iterations
    /\ current_iteration' = current_iteration + 1
    /\ \E all_passed \in BOOLEAN, score_read \in BOOLEAN, score \in Scores :
        LET quality_ok == all_passed /\ CheckCodeQuality(score_read, score) IN
        /\ last_check' = [all_passed |-> all_passed, quality_ok |-> quality_ok]
        /\ IF quality_ok
           THEN project_success' = TRUE /\ project_pc' = "final_audit"
           ELSE project_pc' = "correct" /\ UNCHANGED project_success
    /\ UNCHANGED <<project_max_iterations, improvement_detected, initial_audit,
                   initial_quality, loop_entered, final_report, project_result,
                   exceptProject>>

\* _refactoring_loop, second half of an iteration: no problematic file
\* breaks out of the loop, else _apply_corrections may set
\* improvement_detected
Correct ==
    /\ project_pc = "correct"
    /\ \E problematic_files \in BOOLEAN, fixes_applied \in BOOLEAN :
        IF ~problematic_files
        THEN /\ project_success' = improvement_detected
             /\ project_pc' = "final_audit"
             /\ UNCHANGED improvement_detected
        ELSE /\ improvement_detected' = (improvement_detected \/ fixes_applied)
             /\ project_pc' = "loop"
             /\ UNCHANGED project_success
    /\ UNCHANGED <<project_max_iterations, current_iteration, initial_audit,
                   initial_quality, last_check, loop_entered, final_report,
                   project_result, exceptProject>>

\* _refactoring_loop: the range is exhausted, `return improvement_detected`
LoopExhausted ==
    /\ project_pc = "loop"
    /\ current_iteration >= project_max_iterations
    /\ project_success' = improvement_detected
    /\ project_pc' = "final_audit"
    /\ UNCHANGED <<project_max_iterations, current_iteration, improvement_detected,
                   initial_audit, initial_quality, last_check, loop_entered,
                   final_report, project_result, exceptProject>>

\* the conclusion of _generate_final_report
Conclusion(success) == IF success THEN "mission accomplie" ELSE "partiellement accomplie"

\* run(), steps 3 and 4: final audit, final report, `return self.success`
FinalReport ==
    /\ project_pc = "final_audit"
    /\ final_report' = Conclusion(project_success)
    /\ project_result' = IF project_success THEN "true" ELSE "false"
    /\ project_pc' = "returned"
    /\ UNCHANGED <<project_max_iterations, current_iteration, project_success,
                   improvement_detected, initial_audit, initial_quality, last_check,
                   loop_entered, exceptProject>>

\* run(): `except Exception` around the steps returns False
RunFails ==
    /\ project_pc \in {"loop", "correct", "final_audit"}
    /\ project_result' = "false"
    /\ project_pc' = "returned"
    /\ UNCHANGED <<project_max_iterations, current_iteration, project_success,
                   improvement_detected, initial_audit, initial_quality, last_check,
                   loop_entered, final_report, exceptProject>>

NextProject ==
    \/ Construct
    \/ InitialAudit
    \/ CheckIteration
    \/ Correct
    \/ LoopExhausted
    \/ FinalReport
    \/ RunFails

SpecProject == InitIdle /\ [][NextProject]_vars

Validations == { i \in 1..Len(calls) : calls[i].op \in {"test", "final_test"} }

\* the last validation executed for the file passed
LastValidationPassed ==
    /\ Validations # {}
    /\ \E i \in Validations : calls[i].ok /\ \A j \in Validations : j <= i

\* C28: between files and at the end of the batch, successful_files is the
\* number of results with success = TRUE and failed_files the number with
\* success = FALSE, and a result has success = TRUE only if the last
\* validation executed for its file passed.
C28_CountersMatchResults ==
    pc \in {"files", "returned"} =>
        /\ progress.successful_files =
              Cardinality({ i \in 1..Len(file_results) : file_results[i].success })
        /\ progress.failed_files = Cardinality(FailedResults)
        /\ (FileDone /\ Last(file_results).success) => LastValidationPassed

C28_Witness ==
    /\ pc = "files" /\ Len(file_results) = 2
    /\ ~file_results[1].success
    /\ file_results[2].success /\ file_results[2].error_type = "retry_not_needed"
    /\ FailedAt(1, FALSE)
    /\ progress.successful_files = 1 /\ progress.failed_files = 1

\* ----------------------------------------------------------- termination
\* run() is a single sequential thread: as long as a step is possible, the
\* interpreter takes it.
SpecFair == Init /\ [][Next]_vars /\ WF_vars(Next)

\* number of calls of one collaborator operation for the file in the log
CallCount(ops) == Cardinality({ i \in 1..Len(calls) : calls[i].op \in ops })

\* C29: with max_iterations >= 0 a file's loop calls the fixer at most
\* max_iterations times and the validator at most max_iterations + 1 times,
\* and the batch eventually returns, with
\* total_iterations <= processed_files * max_iterations.
C29_BatchReturnsWithinBudget ==
    (max_iterations >= 0) =>
        /\ [](/\ CallCount({"fix"}) <= max_iterations
              /\ CallCount({"test", "final_test"}) <= max_iterations + 1)
        /\ <>(/\ pc = "returned"
              /\ progress.total_iterations
                   <= progress.processed_files * max_iterations)

\* --------------------------------------------------- sandboxed file access
exceptSandbox == <<runVars, toolVars, busVars, projectVars>>

\* The file system the paths are resolved in: /sandbox with a directory d
\* and a symbolic link out -> /etc, and /etc outside of it.  A path is a
\* sequence of components, absolute or relative.
Names == {"..", "d", "out", "sandbox", "etc"}

RECURSIVE PartsOf(_)
PartsOf(n) ==
    IF n = 0 THEN { << >> }
    ELSE PartsOf(n - 1) \cup { Append(p, c) : p \in PartsOf(n - 1), c \in Names }

Paths == [absolute : BOOLEAN, parts : PartsOf(MaxPathLen)]

SymlinkAt(p) == p = <<"sandbox", "out">>
SymlinkTarget == <<"etc">>

\* one component further from the absolute, resolved path cur
Walk(cur, c) ==
    IF c = ".."
    THEN IF cur = << >> THEN << >> ELSE SubSeq(cur, 1, Len(cur) - 1)
    ELSE IF SymlinkAt(Append(cur, c)) THEN SymlinkTarget ELSE Append(cur, c)

RECURSIVE WalkAll(_, _)
WalkAll(cur, parts) ==
    IF parts = << >> THEN cur
    ELSE WalkAll(Walk(cur, Head(parts)), Tail(parts))

\* the file the operating system reaches when it opens an absolute path
RealPath(parts) == WalkAll(<< >>, parts)

\* variant: the path is only made absolute, ".." and links are kept
Resolve_Unresolved(parts) == parts

\* Path.resolve(): ".." and symbolic links are resolved
Resolve(parts) == WalkAll(<< >>, parts)

\* Path.__truediv__: an absolute right operand replaces the left one
Join(root, path) == IF path.absolute THEN path.parts ELSE root \o path.parts

\* Path.relative_to succeeds: root is a leading run of components of p
IsUnder(p, root) == Len(p) >= Len(root) /\ SubSeq(p, 1, Len(root)) = root

\* self.sandbox_root of the FileOperations instance
SandboxRoot == <<"sandbox">>

\* the workspace_root of the SecurityManager made by init_security(root)
RootPath(root) == IF root = 1 THEN <<"sandbox">> ELSE <<"sandbox", "d">>

\* FileOperations._validate_path
ValidatePath(filepath) ==
    LET full_path == Resolve(Join(SandboxRoot, filepath)) IN
    [ok |-> IsUnder(full_path, SandboxRoot), full_path |-> full_path]

\* SecurityManager.validate_and_resolve
ValidateAndResolve(workspace_root, target_path) ==
    LET resolved == IF ~target_path.absolute
                    THEN Resolve(workspace_root \o target_path.parts)
                    ELSE Resolve(target_path.parts) IN
    [ok |-> IsUnder(resolved, workspace_root), full_path |-> resolved]

FileOperationsOps == {"read_file", "write_file", "get_file_info", "file_exists"}
FileOpsOps == {"read_file", "write_file", "list_files", "file_exists"}

\* how an operation ends once its path was validated (v.ok) or rejected;
\* `exists` is whether the file is there
Outcome(op, v, exists, violation) ==
    IF ~v.ok THEN (IF op = "file_exists" THEN "false" ELSE violation)
    ELSE IF op = "file_exists" THEN (IF exists THEN "true" ELSE "false")
    ELSE IF op \in {"read_file", "get_file_info"} /\ ~exists THEN "FileNotFoundError"
    ELSE "ok"

\* the record of an operation: whether the place its path leads to is
\* outside the root, how it ended, and whether the file system was touched
\* there, which happens only when the validation let the path through
Operation(lib, op, root, v, exists, violation) ==
    [lib |-> lib, op |-> op, outside |-> ~IsUnder(RealPath(v.full_path), root),
     outcome |-> Outcome(op, v, exists, violation), accessed |-> v.ok]

Touches(o) == o.accessed /\ o.outside

\* write_file went through inside the root
Writes(o) == o.op = "write_file" /\ o.accessed /\ ~o.outside

\* an agent calls read_file, write_file, get_file_info or file_exists of
\* FileOperations
FileOperationsCall ==
    /\ \E op \in FileOperationsOps, filepath \in Paths, exists \in BOOLEAN :
        LET o == Operation("file_operations", op, SandboxRoot, ValidatePath(filepath),
                           exists, "SandboxViolationError") IN
        /\ last_op' = o
        /\ outside_touched' = (outside_touched \/ Touches(o))
        /\ inside_written' = (inside_written \/ Writes(o))
    /\ UNCHANGED exceptSandbox

\* an agent calls read_file, write_file, list_files or file_exists of
\* tools/file_ops; without an initialised SecurityManager
\* _get_security_manager raises (file_exists then returns False)
FileOpsCall ==
    /\ tools_imported
    /\ \E op \in FileOpsOps, file_path \in Paths, exists \in BOOLEAN :
        IF GetSecurityManagerRaises
        THEN /\ last_op' = [lib |-> "file_ops", op |-> op, outside |-> FALSE,
                            outcome |-> IF op = "file_exists" THEN "false"
                                        ELSE "RuntimeError",
                            accessed |-> FALSE]
             /\ UNCHANGED <<outside_touched, inside_written>>
        ELSE LET workspace_root == RootPath(security_manager)
                 o == Operation("file_ops", op, workspace_root,
                                ValidateAndResolve(workspace_root, file_path),
                                exists, "SecurityError") IN
             /\ last_op' = o
             /\ outside_touched' = (outside_touched \/ Touches(o))
             /\ inside_written' = (inside_written \/ Writes(o))
    /\ UNCHANGED exceptSandbox

NextSandbox == ImportTools \/ InitSecurity \/ FileOperationsCall \/ FileOpsCall

SpecSandbox == InitIdle /\ [][NextSandbox]_vars

\* C30: an operation of FileOperations or of file_ops on a path that leads
\* outside its root fails with SandboxViolationError / SecurityError
\* (file_exists answers false) without touching the file system, so no
\* sequence of operations reads or writes outside the root.
C30_NoAccessOutsideRoot ==
    /\ ~outside_touched
    /\ (last_op.op # "none" /\ last_op.outside) =>
          /\ ~last_op.accessed
          /\ last_op.outcome =
                IF last_op.op = "file_exists" THEN "false"
                ELSE IF last_op.lib = "file_ops" THEN "SecurityError"
                ELSE "SandboxViolationError"

\* a write of file_ops to a path that leads outside the workspace is refused
C30_Witness ==
    /\ last_op.lib = "file_ops" /\ last_op.op = "write_file"
    /\ last_op.outside
    /\ last_op.outcome = "SecurityError"
    /\ ~last_op.accessed

====
